---- MODULE Spec2Model ----
(***************************************************************************)
(* Booking validity engine of the rental marketplace (rental/core):        *)
(* BookingForm.clean, Booking.save and the views that create, cancel,      *)
(* re-status and edit bookings.                                            *)
(*                                                                         *)
(* Instants are minutes since 00:00 of date 0; money is in hundredths      *)
(* (DecimalField with decimal_places=2).                                   *)
(*                                                                         *)
(* Spec        the booking requests, served one at a time                  *)
(* SpecPricing bookings of every type, with the landlord editing the rates *)
(* SpecFault   creation whose notification insert may raise                *)
(* SpecConc    two creation requests served concurrently                   *)
(* SpecReview  tenants reviewing completed bookings, two requests at once  *)
(***************************************************************************)
EXTENDS Integers, Sequences, FiniteSets, TLC

(* ------------------------------ bounds -------------------------------- *)
MaxBookings == 2
MaxNotifications == 3
MaxSlot == 2
MaxGuests == 2
MaxRequests == 2
MaxReviews == 3

(* ------------------------- sets of inputs ----------------------------- *)
Props == {1, 2}
Tenants == {"t1", "t2"}
Landlords == {"l1", "l2"}
Staff == {"a1"}
Users == Tenants \cup Landlords \cup Staff
\* who sends each kind of request
Bookers == Tenants \cup {"l1"}
Cancellers == Tenants \cup {"l1"}
Deciders == Landlords \cup {"t1"}
Editors == Staff \cup {"t1"}
Dates == {0}
\* times of day offered by the requests: 09:00, 10:00, ... (minutes of the day)
Times == {9 * 60 + 60 * i : i \in 0..MaxSlot}
\* the (start time, end time) pairs the requests carry: the proper ones and
\* a reversed one
Spans == {sp \in Times \X Times : sp[1] < sp[2]} \cup {<<10 * 60, 9 * 60>>}
Guests == 1..MaxGuests
\* the booking types the requests carry (with a single date no daily, weekly
\* or monthly request reaches the minimum duration)
BookingTypes == {"hourly"}
Requests == 1..MaxRequests
\* the instants the clock is observed at: midnight and 10:00
ClockValues == {d * 1440 + t : d \in Dates, t \in {0, 10 * 60}}

\* the requests of the pricing runs, <<start date, end date, start time, end
\* time, booking type>>.  Hourly: 30, 60, 90 and 120 minutes, 2 hours on a
\* later date, 21:00 to 10:00 of the next date, and two outside 09:00-22:00.
\* Daily: 1 date (from 00:00, from 09:00), 2 and 3 dates, and 23:59 to 23:59
\* of the next date.  Weekly: 7 dates (from 00:00, from 09:00), 8
\* and 15 dates.  Monthly: 28, 29 and 31 dates.
PricingRequests ==
    {<<0, 0, 9 * 60, 9 * 60 + 30, "hourly">>, <<0, 0, 9 * 60, 10 * 60, "hourly">>,
     <<0, 0, 9 * 60, 10 * 60 + 30, "hourly">>, <<0, 0, 9 * 60, 11 * 60, "hourly">>,
     <<40, 40, 9 * 60, 11 * 60, "hourly">>, <<0, 1, 21 * 60, 10 * 60, "hourly">>,
     <<0, 0, 8 * 60, 10 * 60, "hourly">>, <<0, 0, 21 * 60, 22 * 60 + 30, "hourly">>,
     <<0, 0, 0, 18 * 60, "daily">>, <<0, 6, 0, 18 * 60, "weekly">>,
     <<0, 0, 9 * 60, 18 * 60, "daily">>, <<0, 1, 9 * 60, 18 * 60, "daily">>,
     <<0, 2, 9 * 60, 18 * 60, "daily">>, <<0, 1, 23 * 60 + 59, 9 * 60, "daily">>,
     <<0, 6, 9 * 60, 18 * 60, "weekly">>, <<0, 7, 9 * 60, 18 * 60, "weekly">>,
     <<0, 14, 9 * 60, 18 * 60, "weekly">>,
     <<0, 27, 9 * 60, 18 * 60, "monthly">>, <<0, 28, 9 * 60, 18 * 60, "monthly">>,
     <<0, 30, 9 * 60, 18 * 60, "monthly">>}

(* ------------------------------ state --------------------------------- *)
VARIABLES properties, bookings, notifications, now, inflight, reviews

vars == <<properties, bookings, notifications, now, inflight, reviews>>

\* User.user_type
user_type(u) == IF u \in Tenants THEN "tenant" ELSE IF u \in Landlords THEN "landlord" ELSE "admin"

\* User.is_staff
is_staff(u) == u \in Staff

\* Booking.STATUS_CHOICES
STATUS_CHOICES == {"pending", "confirmed", "cancelled", "completed"}

\* a DecimalField(null=True) that holds no value
None == -1

\* the rows of the Property table at start-up; the per-day, per-week and
\* per-month rates are null until a PropertyForm sets them
InitialProperties ==
    [p \in Props |->
        [landlord |-> IF p = 1 THEN "l1" ELSE "l2",
         price_per_hour |-> IF p = 1 THEN 100000 ELSE 50000,
         price_per_day |-> None,
         price_per_week |-> None,
         price_per_month |-> None,
         capacity |-> IF p = 1 THEN 1 ELSE 2,
         status |-> IF p = 1 THEN "active" ELSE "draft"]]

\* a rate table as a PropertyForm posts it: price_per_hour is required, the
\* other three are optional and at least 0
RateTable(h, d, w, m) ==
    [price_per_hour |-> h, price_per_day |-> d, price_per_week |-> w, price_per_month |-> m]

\* the rate tables the landlords post (10.00 or 12.00 an hour, 70.00 a day,
\* 300.00 a week, 1000.00 a month, or 0)
RateTables ==
    {RateTable(1000, None, None, None), RateTable(1200, None, None, None),
     RateTable(1000, 7000, None, None), RateTable(1000, 0, None, None),
     RateTable(1000, 7000, 30000, None), RateTable(1000, 7000, 0, None),
     RateTable(1000, 7000, 30000, 100000), RateTable(1000, 7000, 30000, 0)}

NoRequest == [pc |-> "idle"]

Init ==
    /\ properties = InitialProperties
    /\ bookings = << >>
    /\ notifications = << >>
    /\ now = 0
    /\ inflight = [r \in Requests |-> NoRequest]
    /\ reviews = << >>

(* --------------------------- pure helpers ----------------------------- *)
\* what a view answers: messages.success / messages.error, or the JSON body
Response(level, code) == [level |-> level, code |-> code]

\* the outcome of a request: the tables after it and its response
Result(bks, ntfs, level, code) ==
    [bookings |-> bks, notifications |-> ntfs, response |-> Response(level, code)]

\* datetime.combine(date, time)
combine(d, t) == d * 1440 + t

\* datetime.hour, datetime.minute
hour(dt) == (dt % 1440) \div 60
minute(dt) == dt % 60

\* round(n / d) to the nearest integer, ties to even (Python's round)
round_div(n, d) ==
    LET q == n \div d
        r == n % d
    IN  IF 2 * r < d THEN q
        ELSE IF 2 * r > d THEN q + 1
        ELSE IF q % 2 = 0 THEN q ELSE q + 1

\* BookingSave keeping a price that is already set
BookingSave_KeepPrice(b) ==
    IF b.total_price # 0
    THEN b
    ELSE [b EXCEPT !.total_price =
            round_div(properties[b.property].price_per_hour
                          * (b.end_datetime - b.start_datetime), 60)]

\* BookingSave charging only the whole hours of the duration
BookingSave_WholeHours(b) ==
    [b EXCEPT !.total_price =
        properties[b.property].price_per_hour * ((b.end_datetime - b.start_datetime) \div 60)]

\* Booking.save: the price is recomputed from the per-hour rate on every save
BookingSave(b) ==
    [b EXCEPT !.total_price =
        round_div(properties[b.property].price_per_hour * (b.end_datetime - b.start_datetime), 60)]

(* ----------------------- BookingForm (forms.py) ----------------------- *)
\* form_conflicting_bookings with closed intervals (__lte / __gte)
form_conflicting_bookings_Closed(property_obj, instance_id, start_datetime, end_datetime) ==
    {i \in DOMAIN bookings :
        /\ bookings[i].property = property_obj
        /\ bookings[i].status \in {"confirmed", "pending"}
        /\ bookings[i].start_datetime <= end_datetime
        /\ bookings[i].end_datetime >= start_datetime
        /\ i # instance_id}

\* BookingForm.clean: Booking.objects.filter(property=..., status__in=...,
\* start_datetime__lt=end, end_datetime__gt=start).exclude(id=instance.id);
\* instance_id is 0 for an unsaved instance (exclude(id=None) excludes no row)
form_conflicting_bookings(property_obj, instance_id, start_datetime, end_datetime) ==
    {i \in DOMAIN bookings :
        /\ bookings[i].property = property_obj
        /\ bookings[i].status \in {"confirmed", "pending"}
        /\ bookings[i].start_datetime < end_datetime
        /\ bookings[i].end_datetime > start_datetime
        /\ i # instance_id}

\* cleaned_data['calculated_start_datetime']
calculated_start_datetime(start_date, start_time) == combine(start_date, start_time)

\* cleaned_data['calculated_end_datetime']: the end of a daily, weekly or
\* monthly booking is moved to 23:59 of its end date
calculated_end_datetime(end_date, end_time, booking_type) ==
    IF booking_type \in {"daily", "weekly", "monthly"}
    THEN combine(end_date, 23 * 60 + 59)
    ELSE combine(end_date, end_time)

\* clean refusing also the durations equal to the minimum
clean_StrictMinimum(property_obj, instance_id, start_date, end_date, start_time, end_time, booking_type, guests) ==
    LET start_datetime == calculated_start_datetime(start_date, start_time)
        end_datetime == calculated_end_datetime(end_date, end_time, booking_type)
        duration == end_datetime - start_datetime
    IN  IF start_datetime < now THEN "past"
        ELSE IF end_datetime <= start_datetime THEN "end_not_after_start"
        ELSE IF booking_type = "hourly" /\ duration <= 60 THEN "min_duration"
        ELSE IF booking_type = "daily" /\ duration <= 1440 THEN "min_duration"
        ELSE IF booking_type = "weekly" /\ duration <= 7 * 1440 THEN "min_duration"
        ELSE IF booking_type = "monthly" /\ duration <= 28 * 1440 THEN "min_duration"
        ELSE IF booking_type = "hourly"
                /\ (hour(start_datetime) < 9 \/ hour(start_datetime) >= 22) THEN "business_hours"
        ELSE IF booking_type = "hourly"
                /\ (hour(end_datetime) > 22
                    \/ (hour(end_datetime) = 22 /\ minute(end_datetime) > 0)) THEN "business_hours"
        ELSE IF property_obj # 0
                /\ form_conflicting_bookings(property_obj, instance_id,
                                             start_datetime, end_datetime) # {} THEN "conflict"
        ELSE IF guests # 0 /\ guests < 1 THEN "guests"
        ELSE IF guests # 0 /\ property_obj # 0
                /\ guests > properties[property_obj].capacity THEN "capacity"
        ELSE "ok"

\* clean counting the dates of a daily, weekly or monthly request, both ends
\* included, instead of measuring its duration
clean_InclusiveDays(property_obj, instance_id, start_date, end_date, start_time, end_time, booking_type, guests) ==
    LET start_datetime == calculated_start_datetime(start_date, start_time)
        end_datetime == calculated_end_datetime(end_date, end_time, booking_type)
        duration == end_datetime - start_datetime
    IN  IF start_datetime < now THEN "past"
        ELSE IF end_datetime <= start_datetime THEN "end_not_after_start"
        ELSE IF booking_type = "hourly" /\ duration < 60 THEN "min_duration"
        ELSE IF booking_type = "daily" /\ end_date - start_date + 1 < 1 THEN "min_duration"
        ELSE IF booking_type = "weekly" /\ end_date - start_date + 1 < 7 THEN "min_duration"
        ELSE IF booking_type = "monthly" /\ end_date - start_date + 1 < 28 THEN "min_duration"
        ELSE IF booking_type = "hourly"
                /\ (hour(start_datetime) < 9 \/ hour(start_datetime) >= 22) THEN "business_hours"
        ELSE IF booking_type = "hourly"
                /\ (hour(end_datetime) > 22
                    \/ (hour(end_datetime) = 22 /\ minute(end_datetime) > 0)) THEN "business_hours"
        ELSE IF property_obj # 0
                /\ form_conflicting_bookings(property_obj, instance_id,
                                             start_datetime, end_datetime) # {} THEN "conflict"
        ELSE IF guests # 0 /\ guests < 1 THEN "guests"
        ELSE IF guests # 0 /\ property_obj # 0
                /\ guests > properties[property_obj].capacity THEN "capacity"
        ELSE "ok"

\* BookingForm.clean: the first ValidationError raised, or "ok".
\* property_obj is 0 when the form was built without property_obj.
clean(property_obj, instance_id, start_date, end_date, start_time, end_time, booking_type, guests) ==
    LET start_datetime == calculated_start_datetime(start_date, start_time)
        end_datetime == calculated_end_datetime(end_date, end_time, booking_type)
        duration == end_datetime - start_datetime
    IN  IF start_datetime < now THEN "past"
        ELSE IF end_datetime <= start_datetime THEN "end_not_after_start"
        ELSE IF booking_type = "hourly" /\ duration < 60 THEN "min_duration"
        ELSE IF booking_type = "daily" /\ duration < 1440 THEN "min_duration"
        ELSE IF booking_type = "weekly" /\ duration < 7 * 1440 THEN "min_duration"
        ELSE IF booking_type = "monthly" /\ duration < 28 * 1440 THEN "min_duration"
        ELSE IF booking_type = "hourly"
                /\ (hour(start_datetime) < 9 \/ hour(start_datetime) >= 22) THEN "business_hours"
        ELSE IF booking_type = "hourly"
                /\ (hour(end_datetime) > 22
                    \/ (hour(end_datetime) = 22 /\ minute(end_datetime) > 0)) THEN "business_hours"
        ELSE IF property_obj # 0
                /\ form_conflicting_bookings(property_obj, instance_id,
                                             start_datetime, end_datetime) # {} THEN "conflict"
        ELSE IF guests # 0 /\ guests < 1 THEN "guests"
        ELSE IF guests # 0 /\ property_obj # 0
                /\ guests > properties[property_obj].capacity THEN "capacity"
        ELSE "ok"

\* bool(Decimal): a rate that is null or 0 is falsy
truthy(rate) == rate # None /\ rate # 0

\* BookingForm.clean: duration_days = (end_date - start_date).days + 1
duration_days(start_date, end_date) == end_date - start_date + 1

\* max(a, b)
max(a, b) == IF a >= b THEN a ELSE b

\* BookingForm.clean: weeks = max(1, days // 7 + (1 if days % 7 > 0 else 0))
weeks(days) == max(1, days \div 7 + (IF days % 7 > 0 THEN 1 ELSE 0))

\* BookingForm.clean: months = max(1, days // 30 + (1 if days % 30 > 0 else 0))
months(days) == max(1, days \div 30 + (IF days % 30 > 0 THEN 1 ELSE 0))

\* BookingForm.clean: cleaned_data['calculated_price'] of a form built with
\* property_obj (in hundredths; round(price, 2) of a product of a rate and
\* whole numbers is that product)
calculated_price(property_obj, start_date, end_date, start_time, end_time, booking_type) ==
    LET rates == properties[property_obj]
        days == duration_days(start_date, end_date)
        duration == calculated_end_datetime(end_date, end_time, booking_type)
                    - calculated_start_datetime(start_date, start_time)
    IN  IF booking_type = "hourly"
        THEN round_div(rates.price_per_hour * duration, 60)
        ELSE IF booking_type = "daily"
        THEN IF truthy(rates.price_per_day)
             THEN rates.price_per_day * days
             ELSE rates.price_per_hour * 8 * days
        ELSE IF booking_type = "weekly"
        THEN IF truthy(rates.price_per_week)
             THEN rates.price_per_week * weeks(days)
             ELSE IF truthy(rates.price_per_day)
             THEN rates.price_per_day * 5 * weeks(days)
             ELSE rates.price_per_hour * 8 * 5 * weeks(days)
        ELSE IF truthy(rates.price_per_month)
             THEN rates.price_per_month * months(days)
             ELSE IF truthy(rates.price_per_week)
             THEN rates.price_per_week * 4 * months(days)
             ELSE IF truthy(rates.price_per_day)
             THEN rates.price_per_day * 20 * months(days)
             ELSE rates.price_per_hour * 8 * 20 * months(days)

(* ------------------------ notifications (views.py) -------------------- *)
\* create_booking_notification: the Notification row created for booking
\* number booking_id, whose row is booking
create_booking_notification(booking_id, booking, notification_type) ==
    [user |-> IF notification_type = "booking_created"
              THEN properties[booking.property].landlord
              ELSE booking.tenant,
     notification_type |-> notification_type,
     related_object_id |-> booking_id]

(* ------------------------------ views --------------------------------- *)
\* the unsaved Booking a creation request builds
NewBooking(u, p, start_datetime, end_datetime, guests) ==
    [property |-> p, tenant |-> u,
     start_datetime |-> start_datetime, end_datetime |-> end_datetime,
     guests |-> guests, total_price |-> 0, status |-> "pending"]

\* create_booking, after form.is_valid(): form.save(commit=False), which
\* sets total_price to the form's calculated_price, status 'pending',
\* booking.save(), the booking_created notification
create_booking_save(u, p, start_datetime, end_datetime, guests, price) ==
    LET booking == BookingSave([NewBooking(u, p, start_datetime, end_datetime, guests)
                                    EXCEPT !.total_price = price])
    IN  Result(Append(bookings, booking),
               Append(notifications,
                      create_booking_notification(Len(bookings) + 1, booking,
                                                  "booking_created")),
               "success", "none")

\* create_booking (POST): the outcome of the whole request
create_booking_result(u, p, start_date, end_date, start_time, end_time, booking_type, guests) ==
    IF user_type(u) # "tenant"
    THEN Result(bookings, notifications, "error", "forbidden")
    ELSE LET err == clean(p, 0, start_date, end_date, start_time, end_time,
                          booking_type, guests)
         IN  IF err # "ok"
             THEN Result(bookings, notifications, "error", err)
             ELSE create_booking_save(u, p,
                        calculated_start_datetime(start_date, start_time),
                        calculated_end_datetime(end_date, end_time, booking_type),
                        guests,
                        calculated_price(p, start_date, end_date, start_time, end_time,
                                         booking_type))

\* create_booking (POST) when create_booking_notification raises: booking.save()
\* has committed (no transaction surrounds the view), the exception leaves
\* the view and the request is answered with a server error
create_booking_raises_result(u, p, start_date, end_date, start_time, end_time, booking_type, guests) ==
    LET r == create_booking_result(u, p, start_date, end_date, start_time, end_time,
                                   booking_type, guests)
    IN  IF r.response.level = "error"
        THEN r
        ELSE Result(r.bookings, notifications, "error", "exception")

\* ajax_conflicting_bookings without the property filter
ajax_conflicting_bookings_AnyProperty(property_obj, start_datetime, end_datetime) ==
    {i \in DOMAIN bookings :
        /\ bookings[i].status \in {"confirmed", "pending"}
        /\ bookings[i].start_datetime < end_datetime
        /\ bookings[i].end_datetime > start_datetime}

\* ajax_create_booking: Booking.objects.filter(property=..., status__in=...,
\* start_datetime__lt=end, end_datetime__gt=start)
ajax_conflicting_bookings(property_obj, start_datetime, end_datetime) ==
    {i \in DOMAIN bookings :
        /\ bookings[i].property = property_obj
        /\ bookings[i].status \in {"confirmed", "pending"}
        /\ bookings[i].start_datetime < end_datetime
        /\ bookings[i].end_datetime > start_datetime}

\* ajax_create_booking, after the availability check: Booking.objects.create
\* and the booking_created notification
ajax_create_booking_create(u, p, start_datetime, end_datetime, guests) ==
    LET booking == BookingSave(NewBooking(u, p, start_datetime, end_datetime, guests))
    IN  Result(Append(bookings, booking),
               Append(notifications,
                      create_booking_notification(Len(bookings) + 1, booking,
                                                  "booking_created")),
               "success", "none")

\* ajax_create_booking (POST, XMLHttpRequest): the outcome of the whole request
ajax_create_booking_result(u, p, booking_date, start_time, end_time, guests) ==
    LET start_datetime == combine(booking_date, start_time)
        end_datetime == combine(booking_date, end_time)
    IN  IF ajax_conflicting_bookings(p, start_datetime, end_datetime) # {}
        THEN Result(bookings, notifications, "error", "conflict")
        ELSE ajax_create_booking_create(u, p, start_datetime, end_datetime, guests)

\* ajax_create_booking when create_booking_notification raises:
\* Booking.objects.create has committed, 'except Exception' answers with the
\* error of the exception
ajax_create_booking_raises_result(u, p, booking_date, start_time, end_time, guests) ==
    LET r == ajax_create_booking_result(u, p, booking_date, start_time, end_time, guests)
    IN  IF r.response.level = "error"
        THEN r
        ELSE Result(r.bookings, notifications, "error", "exception")

\* cancel_booking_result creating no notification
cancel_booking_result_Silent(u, booking_id) ==
    IF u # bookings[booking_id].tenant
    THEN Result(bookings, notifications, "error", "forbidden")
    ELSE IF bookings[booking_id].status \notin {"pending", "confirmed"}
    THEN Result(bookings, notifications, "error", "not_cancellable")
    ELSE IF bookings[booking_id].start_datetime <= now
    THEN Result(bookings, notifications, "error", "started")
    ELSE LET booking == BookingSave([bookings[booking_id] EXCEPT !.status = "cancelled"])
         IN  Result([bookings EXCEPT ![booking_id] = booking], notifications,
                    "success", "none")

\* cancel_booking_result refusing only bookings that started before now
cancel_booking_result_AtStart(u, booking_id) ==
    IF u # bookings[booking_id].tenant
    THEN Result(bookings, notifications, "error", "forbidden")
    ELSE IF bookings[booking_id].status \notin {"pending", "confirmed"}
    THEN Result(bookings, notifications, "error", "not_cancellable")
    ELSE IF bookings[booking_id].start_datetime < now
    THEN Result(bookings, notifications, "error", "started")
    ELSE LET booking == BookingSave([bookings[booking_id] EXCEPT !.status = "cancelled"])
         IN  Result([bookings EXCEPT ![booking_id] = booking],
                    Append(notifications,
                           create_booking_notification(booking_id, booking,
                                                       "booking_cancelled")),
                    "success", "none")

\* cancel_booking (the tenant's cancellation): the outcome of the request
cancel_booking_result(u, booking_id) ==
    IF u # bookings[booking_id].tenant
    THEN Result(bookings, notifications, "error", "forbidden")
    ELSE IF bookings[booking_id].status \notin {"pending", "confirmed"}
    THEN Result(bookings, notifications, "error", "not_cancellable")
    ELSE IF bookings[booking_id].start_datetime <= now
    THEN Result(bookings, notifications, "error", "started")
    ELSE LET booking == BookingSave([bookings[booking_id] EXCEPT !.status = "cancelled"])
         IN  Result([bookings EXCEPT ![booking_id] = booking],
                    Append(notifications,
                           create_booking_notification(booking_id, booking,
                                                       "booking_cancelled")),
                    "success", "none")

\* update_booking_status_result taking every status of STATUS_CHOICES
update_booking_status_result_AnyStatus(u, booking_id, status) ==
    IF u # properties[bookings[booking_id].property].landlord
    THEN Result(bookings, notifications, "error", "forbidden")
    ELSE IF status \notin STATUS_CHOICES
    THEN Result(bookings, notifications, "error", "invalid_status")
    ELSE LET old_status == bookings[booking_id].status
             booking == BookingSave([bookings[booking_id] EXCEPT !.status = status])
         IN  Result([bookings EXCEPT ![booking_id] = booking],
                    IF old_status # status /\ status \in {"confirmed", "cancelled"}
                    THEN Append(notifications,
                                create_booking_notification(booking_id, booking,
                                                            "booking_" \o status))
                    ELSE notifications,
                    "success", "none")

\* update_booking_status_result notifying without comparing with old_status
update_booking_status_result_AlwaysNotify(u, booking_id, status) ==
    IF u # properties[bookings[booking_id].property].landlord
    THEN Result(bookings, notifications, "error", "forbidden")
    ELSE IF status \notin {"confirmed", "cancelled", "completed"}
    THEN Result(bookings, notifications, "error", "invalid_status")
    ELSE LET booking == BookingSave([bookings[booking_id] EXCEPT !.status = status])
         IN  Result([bookings EXCEPT ![booking_id] = booking],
                    IF status \in {"confirmed", "cancelled"}
                    THEN Append(notifications,
                                create_booking_notification(booking_id, booking,
                                                            "booking_" \o status))
                    ELSE notifications,
                    "success", "none")

\* update_booking_status (the landlord's confirm / cancel / complete);
\* status is the <str:status> part of the URL
update_booking_status_result(u, booking_id, status) ==
    IF u # properties[bookings[booking_id].property].landlord
    THEN Result(bookings, notifications, "error", "forbidden")
    ELSE IF status \notin {"confirmed", "cancelled", "completed"}
    THEN Result(bookings, notifications, "error", "invalid_status")
    ELSE LET old_status == bookings[booking_id].status
             booking == BookingSave([bookings[booking_id] EXCEPT !.status = status])
         IN  Result([bookings EXCEPT ![booking_id] = booking],
                    IF old_status # status /\ status \in {"confirmed", "cancelled"}
                    THEN Append(notifications,
                                create_booking_notification(booking_id, booking,
                                                            "booking_" \o status))
                    ELSE notifications,
                    "success", "none")

\* admin_edit_booking (POST): BookingForm(request.POST, instance=booking),
\* built without property_obj, then BookingForm.save
admin_edit_booking_result(u, booking_id, start_date, end_date, start_time, end_time, booking_type, guests) ==
    IF ~is_staff(u)
    THEN Result(bookings, notifications, "error", "forbidden")
    ELSE LET err == clean(0, booking_id, start_date, end_date, start_time, end_time,
                          booking_type, guests)
         IN  IF err # "ok"
             THEN Result(bookings, notifications, "error", err)
             ELSE Result([bookings EXCEPT ![booking_id] =
                            BookingSave([@ EXCEPT
                                !.guests = guests,
                                !.start_datetime =
                                    calculated_start_datetime(start_date, start_time),
                                !.end_datetime =
                                    calculated_end_datetime(end_date, end_time, booking_type)])],
                         notifications, "success", "none")

(* ------------------------------ actions ------------------------------- *)
\* the tables take the outcome of a request; the model stops growing them
\* at MaxBookings rows and MaxNotifications rows
Store(result) ==
    /\ Len(result.bookings) <= MaxBookings
    /\ Len(result.notifications) <= MaxNotifications
    /\ bookings' = result.bookings
    /\ notifications' = result.notifications

create_booking(u, p, start_date, end_date, start_time, end_time, booking_type, guests) ==
    /\ Store(create_booking_result(u, p, start_date, end_date, start_time, end_time,
                                   booking_type, guests))
    /\ UNCHANGED <<reviews, properties, now, inflight>>

ajax_create_booking(u, p, booking_date, start_time, end_time, guests) ==
    /\ Store(ajax_create_booking_result(u, p, booking_date, start_time, end_time, guests))
    /\ UNCHANGED <<reviews, properties, now, inflight>>

cancel_booking(u, booking_id) ==
    /\ booking_id \in DOMAIN bookings
    /\ Store(cancel_booking_result(u, booking_id))
    /\ UNCHANGED <<reviews, properties, now, inflight>>

update_booking_status(u, booking_id, status) ==
    /\ booking_id \in DOMAIN bookings
    /\ Store(update_booking_status_result(u, booking_id, status))
    /\ UNCHANGED <<reviews, properties, now, inflight>>

admin_edit_booking(u, booking_id, start_date, end_date, start_time, end_time, booking_type, guests) ==
    /\ booking_id \in DOMAIN bookings
    /\ Store(admin_edit_booking_result(u, booking_id, start_date, end_date, start_time,
                                       end_time, booking_type, guests))
    /\ UNCHANGED <<reviews, properties, now, inflight>>

\* edit_property (POST): the landlord's PropertyForm is saved; the fields of
\* the form other than the rates are posted as they are stored
edit_property(u, property_id, form) ==
    /\ u = properties[property_id].landlord
    /\ properties' = [properties EXCEPT ![property_id] =
            [@ EXCEPT !.price_per_hour = form.price_per_hour,
                      !.price_per_day = form.price_per_day,
                      !.price_per_week = form.price_per_week,
                      !.price_per_month = form.price_per_month]]
    /\ UNCHANGED <<reviews, bookings, notifications, now, inflight>>

\* timezone.now() advances between requests
Tick ==
    /\ \E t \in ClockValues : t > now /\ now' = t
    /\ UNCHANGED <<reviews, properties, bookings, notifications, inflight>>

Next ==
    \/ \E u \in Bookers, p \in Props, sd \in Dates, ed \in Dates, sp \in Spans,
          bt \in BookingTypes, g \in Guests :
            create_booking(u, p, sd, ed, sp[1], sp[2], bt, g)
    \/ \E u \in Tenants, p \in Props, d \in Dates, sp \in Spans, g \in Guests :
            ajax_create_booking(u, p, d, sp[1], sp[2], g)
    \/ \E u \in Cancellers, b \in 1..MaxBookings : cancel_booking(u, b)
    \/ \E u \in Deciders, b \in 1..MaxBookings, s \in STATUS_CHOICES :
            update_booking_status(u, b, s)
    \/ \E u \in Editors, b \in 1..MaxBookings, sd \in Dates, ed \in Dates, sp \in Spans,
          bt \in BookingTypes, g \in Guests :
            admin_edit_booking(u, b, sd, ed, sp[1], sp[2], bt, g)
    \/ Tick

Spec == Init /\ [][Next]_vars

(* ---------------- bookings of every type and rate edits --------------- *)
\* the spans staff a1 posts to admin_edit_booking
EditRequests ==
    {<<0, 0, 9 * 60, 10 * 60 + 30, "hourly">>, <<0, 1, 9 * 60, 18 * 60, "daily">>}

\* Tenant t1 books property 1 by the form and by the calendar, its landlord
\* edits the rates and decides the bookings, the tenant cancels, staff a1
\* edits the bookings.
NextPricing ==
    \/ \E rq \in PricingRequests :
            create_booking("t1", 1, rq[1], rq[2], rq[3], rq[4], rq[5], 1)
    \/ \E form \in RateTables : edit_property("l1", 1, form)
    \/ \E b \in 1..MaxBookings, s \in {"confirmed", "cancelled", "completed"} :
            update_booking_status("l1", b, s)
    \/ \E b \in 1..MaxBookings : cancel_booking("t1", b)
    \/ ajax_create_booking("t1", 1, 40, 9 * 60, 10 * 60 + 30, 1)
    \/ \E b \in 1..MaxBookings, rq \in EditRequests :
            admin_edit_booking("a1", b, rq[1], rq[2], rq[3], rq[4], rq[5], 1)

\* property 1 is listed at 10.00 an hour
InitPricing ==
    /\ properties = [InitialProperties EXCEPT ![1].price_per_hour = 1000]
    /\ bookings = << >>
    /\ notifications = << >>
    /\ now = 0
    /\ inflight = [r \in Requests |-> NoRequest]
    /\ reviews = << >>

SpecPricing == InitPricing /\ [][NextPricing]_vars

(* --------------- creation with a failing notification ----------------- *)
create_booking_raises(u, p, start_date, end_date, start_time, end_time, booking_type, guests) ==
    /\ Store(create_booking_raises_result(u, p, start_date, end_date, start_time,
                                          end_time, booking_type, guests))
    /\ UNCHANGED <<reviews, properties, now, inflight>>

ajax_create_booking_raises(u, p, booking_date, start_time, end_time, guests) ==
    /\ Store(ajax_create_booking_raises_result(u, p, booking_date, start_time,
                                               end_time, guests))
    /\ UNCHANGED <<reviews, properties, now, inflight>>

\* the creation requests, each with the insert of its notification succeeding
\* or raising
NextFault ==
    \/ \E u \in Bookers, p \in Props, d \in Dates, sp \in Spans, bt \in BookingTypes,
          g \in Guests :
            \/ create_booking(u, p, d, d, sp[1], sp[2], bt, g)
            \/ create_booking_raises(u, p, d, d, sp[1], sp[2], bt, g)
    \/ \E u \in Tenants, p \in Props, d \in Dates, sp \in Spans, g \in Guests :
            \/ ajax_create_booking(u, p, d, sp[1], sp[2], g)
            \/ ajax_create_booking_raises(u, p, d, sp[1], sp[2], g)

SpecFault == Init /\ [][NextFault]_vars

(* ------------- two creation requests served concurrently -------------- *)
\* Each request runs its availability check and its insert as separate
\* statements, with no transaction or lock around them; request r is held in
\* inflight[r] between the two.

\* create_booking up to form.is_valid() (views.py 557-559)
create_booking_is_valid(r, u, p, start_date, end_date, start_time, end_time, booking_type, guests) ==
    /\ inflight[r] = NoRequest
    /\ user_type(u) = "tenant"
    /\ clean(p, 0, start_date, end_date, start_time, end_time, booking_type, guests) = "ok"
    /\ inflight' = [inflight EXCEPT ![r] =
            [pc |-> "validated", view |-> "create_booking",
             booking |-> [NewBooking(u, p,
                            calculated_start_datetime(start_date, start_time),
                            calculated_end_datetime(end_date, end_time, booking_type),
                            guests)
                          EXCEPT !.total_price =
                            calculated_price(p, start_date, end_date, start_time,
                                             end_time, booking_type)]]]
    /\ UNCHANGED <<reviews, properties, bookings, notifications, now>>

\* create_booking from form.save(commit=False) on (views.py 560-570)
create_booking_persist(r) ==
    /\ inflight[r] # NoRequest
    /\ inflight[r].view = "create_booking"
    /\ LET b == inflight[r].booking
       IN  Store(create_booking_save(b.tenant, b.property, b.start_datetime,
                                     b.end_datetime, b.guests, b.total_price))
    /\ inflight' = [inflight EXCEPT ![r] = NoRequest]
    /\ UNCHANGED <<reviews, properties, now>>

\* ajax_create_booking up to conflicting_bookings.exists() (views.py 1118-1132)
ajax_create_booking_check(r, u, p, booking_date, start_time, end_time, guests) ==
    /\ inflight[r] = NoRequest
    /\ ajax_conflicting_bookings(p, combine(booking_date, start_time),
                                 combine(booking_date, end_time)) = {}
    /\ inflight' = [inflight EXCEPT ![r] =
            [pc |-> "validated", view |-> "ajax_create_booking",
             booking |-> NewBooking(u, p, combine(booking_date, start_time),
                                    combine(booking_date, end_time), guests)]]
    /\ UNCHANGED <<reviews, properties, bookings, notifications, now>>

\* ajax_create_booking from Booking.objects.create on (views.py 1135-1152)
ajax_create_booking_persist(r) ==
    /\ inflight[r] # NoRequest
    /\ inflight[r].view = "ajax_create_booking"
    /\ LET b == inflight[r].booking
       IN  Store(ajax_create_booking_create(b.tenant, b.property, b.start_datetime,
                                            b.end_datetime, b.guests))
    /\ inflight' = [inflight EXCEPT ![r] = NoRequest]
    /\ UNCHANGED <<reviews, properties, now>>

\* the racing requests all ask for one guest
NextConc ==
    \/ \E r \in Requests, u \in Tenants, p \in Props, sd \in Dates, ed \in Dates,
          sp \in Spans, bt \in BookingTypes :
            create_booking_is_valid(r, u, p, sd, ed, sp[1], sp[2], bt, 1)
    \/ \E r \in Requests : create_booking_persist(r)
    \/ \E r \in Requests, u \in Tenants, p \in Props, d \in Dates, sp \in Spans :
            ajax_create_booking_check(r, u, p, d, sp[1], sp[2], 1)
    \/ \E r \in Requests : ajax_create_booking_persist(r)

SpecConc == Init /\ [][NextConc]_vars

(* ------------------- reviews of completed bookings -------------------- *)
\* the ratings posted: 0 fails the validators of Review.rating, 5 passes
Ratings == {0, 5}

\* Review.objects.filter(property=p, user=u).exists()
review_exists(p, u) ==
    \E i \in DOMAIN reviews : reviews[i].property = p /\ reviews[i].user = u

\* the insert of a Review without the unique index on (property, user)
Review_save_NoConstraint(review) == Append(reviews, review)

\* review.save(): the insert of a Review row; the unique index made from
\* unique_together refuses a second row of the same property and user with an
\* IntegrityError, and the table stays as it was
Review_save(review) ==
    IF review_exists(review.property, review.user)
    THEN reviews
    ELSE Append(reviews, review)

\* add_review (POST) up to form.is_valid(): the requester is the booking's
\* tenant, the booking is completed, the tenant has no review of the property
\* yet and the form is valid; every other outcome answers without writing
add_review_is_valid(r, u, booking_id, rating) ==
    /\ inflight[r] = NoRequest
    /\ booking_id \in DOMAIN bookings
    /\ u = bookings[booking_id].tenant
    /\ bookings[booking_id].status = "completed"
    /\ ~review_exists(bookings[booking_id].property, u)
    /\ rating \in 1..5
    /\ inflight' = [inflight EXCEPT ![r] =
            [pc |-> "validated", view |-> "add_review", booking |-> booking_id,
             review |-> [property |-> bookings[booking_id].property, user |-> u,
                         rating |-> rating, status |-> "pending"]]]
    /\ UNCHANGED <<properties, bookings, notifications, now, reviews>>

\* add_review from form.save(commit=False) to review.save()
add_review_save(r) ==
    /\ inflight[r] # NoRequest
    /\ inflight[r].view = "add_review"
    /\ Len(Review_save(inflight[r].review)) <= MaxReviews
    /\ reviews' = Review_save(inflight[r].review)
    /\ inflight' = [inflight EXCEPT ![r] = NoRequest]
    /\ UNCHANGED <<properties, bookings, notifications, now>>

\* Tenants book for the first hour or the second, the landlords confirm and
\* complete the bookings, and the tenants post reviews, two requests at a time.
NextReview ==
    \/ \E u \in Tenants, p \in Props, sp \in {<<9 * 60, 10 * 60>>, <<10 * 60, 11 * 60>>} :
            create_booking(u, p, 0, 0, sp[1], sp[2], "hourly", 1)
    \/ \E u \in Landlords, b \in 1..MaxBookings, s \in {"confirmed", "completed"} :
            update_booking_status(u, b, s)
    \/ \E r \in Requests, u \in Tenants, b \in 1..MaxBookings, rating \in Ratings :
            add_review_is_valid(r, u, b, rating)
    \/ \E r \in Requests : add_review_save(r)

SpecReview == Init /\ [][NextReview]_vars

(* ============================ properties ============================== *)
\* a booking that blocks its span
Active(b) == b.status \in {"pending", "confirmed"}

\* the half-open intervals [s1, e1) and [s2, e2) conflict
Overlap(s1, e1, s2, e2) == s1 < e2 /\ e1 > s2

\* some active booking of property p overlaps [s, e)
Occupied(p, s, e) ==
    \E i \in DOMAIN bookings :
        /\ bookings[i].property = p
        /\ Active(bookings[i])
        /\ Overlap(s, e, bookings[i].start_datetime, bookings[i].end_datetime)

\* the codes of the form's validations that precede its availability check
EarlierErrors == {"past", "end_not_after_start", "min_duration", "business_hours"}

\* C1: no two distinct bookings of one property that are both pending or
\* confirmed have overlapping [start, end) intervals.
C1_NoOverlappingActiveBookings ==
    \A i, j \in DOMAIN bookings :
        (i # j /\ bookings[i].property = bookings[j].property
             /\ Active(bookings[i]) /\ Active(bookings[j]))
        => ~Overlap(bookings[i].start_datetime, bookings[i].end_datetime,
                    bookings[j].start_datetime, bookings[j].end_datetime)

\* C2: of two concurrent creation requests for one property with overlapping
\* spans at most one persists a booking (under SpecConc every booking is
\* the persisted result of a creation request).
C2_AtMostOneOverlappingCreation ==
    \A i, j \in DOMAIN bookings :
        (i # j /\ bookings[i].property = bookings[j].property)
        => ~Overlap(bookings[i].start_datetime, bookings[i].end_datetime,
                    bookings[j].start_datetime, bookings[j].end_datetime)

\* C3: a creation request for [s, e) on property p is answered "conflict"
\* exactly when an active booking [s2, e2) of p has s < e2 and e > s2 (for
\* the form: among the requests that pass its earlier validations), and a
\* request that is not in conflict and fits the capacity is accepted with
\* exactly that span; a span touching an existing one is not in conflict.
C3_ConflictIffOverlap ==
    \A u \in Tenants, p \in Props, d \in Dates, sp \in Spans, g \in Guests :
        LET s == combine(d, sp[1])
            e == combine(d, sp[2])
            ajax == ajax_create_booking_result(u, p, d, sp[1], sp[2], g)
            form == create_booking_result(u, p, d, d, sp[1], sp[2], "hourly", g)
        IN  /\ (ajax.response.code = "conflict") <=> Occupied(p, s, e)
            /\ ajax.response.level = "success" <=> ~Occupied(p, s, e)
            /\ form.response.code \notin EarlierErrors
                 => /\ (form.response.code = "conflict") <=> Occupied(p, s, e)
                    /\ (~Occupied(p, s, e) /\ g <= properties[p].capacity)
                         => /\ form.response.level = "success"
                            /\ Len(form.bookings) = Len(bookings) + 1
                            /\ form.bookings[Len(form.bookings)].start_datetime = s
                            /\ form.bookings[Len(form.bookings)].end_datetime = e

\* C3 witness: two pending bookings of one property touch (one ends at the
\* instant the other starts) and a request overlapping them is in conflict.
C3_Witness ==
    \E i, j \in DOMAIN bookings :
        /\ i # j
        /\ bookings[i].property = bookings[j].property
        /\ bookings[i].status = "pending" /\ bookings[j].status = "pending"
        /\ bookings[i].start_datetime < bookings[i].end_datetime
        /\ bookings[i].end_datetime = bookings[j].start_datetime
        /\ bookings[j].start_datetime < bookings[j].end_datetime
        /\ \E sp \in Spans :
              ajax_create_booking_result("t1", bookings[i].property, 0, sp[1], sp[2], 1)
                  .response.code = "conflict"

\* C4: a creation request is answered "conflict" only if an active booking
\* of the requested property overlaps it, and the answer does not depend on
\* which tenant asks.
C4_OnlySamePropertyActiveBookingsBlock ==
    \A p \in Props, d \in Dates, sp \in Spans, g \in Guests :
        LET s == combine(d, sp[1])
            e == combine(d, sp[2])
        IN  \A u1, u2 \in Tenants :
              u1 # u2 =>
                LET ajax1 == ajax_create_booking_result(u1, p, d, sp[1], sp[2], g)
                    ajax2 == ajax_create_booking_result(u2, p, d, sp[1], sp[2], g)
                    form1 == create_booking_result(u1, p, d, d, sp[1], sp[2], "hourly", g)
                    form2 == create_booking_result(u2, p, d, d, sp[1], sp[2], "hourly", g)
                IN  /\ ajax1.response = ajax2.response
                    /\ form1.response = form2.response
                    /\ ajax1.response.level = "error" => Occupied(p, s, e)
                    /\ form1.response.code = "conflict" => Occupied(p, s, e)

\* C4 witness: a booking was accepted (it is pending, and was created after
\* the cancellation) although an earlier booking of the same tenant on the
\* same property, cancelled by then, overlaps it.
C4_Witness ==
    \E i, j \in DOMAIN bookings :
        /\ i < j
        /\ bookings[i].property = bookings[j].property
        /\ bookings[i].tenant = bookings[j].tenant
        /\ bookings[i].status = "cancelled" /\ bookings[j].status = "pending"
        /\ bookings[i].start_datetime < bookings[i].end_datetime
        /\ Overlap(bookings[i].start_datetime, bookings[i].end_datetime,
                   bookings[j].start_datetime, bookings[j].end_datetime)
        /\ Len(notifications) = 3
        /\ notifications[2].notification_type = "booking_cancelled"
        /\ notifications[3].notification_type = "booking_created"

\* C5: once a booking is cancelled or completed no step changes its status.
C5_TerminalStatusesAreFinal ==
    [][\A i \in DOMAIN bookings :
          bookings[i].status \in {"cancelled", "completed"}
          => bookings'[i].status = bookings[i].status]_vars

\* C6: a booking's status becomes confirmed only from pending.
C6_ConfirmedOnlyFromPending ==
    [][\A i \in DOMAIN bookings :
          (bookings'[i].status = "confirmed" /\ bookings[i].status # "confirmed")
          => bookings[i].status = "pending"]_vars

\* C7: a booking's status becomes completed only from confirmed.
C7_CompletedOnlyFromConfirmed ==
    [][\A i \in DOMAIN bookings :
          (bookings'[i].status = "completed" /\ bookings[i].status # "completed")
          => bookings[i].status = "confirmed"]_vars

\* the precondition of a tenant's cancellation
MayCancel(u, i) ==
    /\ u = bookings[i].tenant
    /\ bookings[i].status \in {"pending", "confirmed"}
    /\ bookings[i].start_datetime > now

\* C8: cancel_booking sets the booking to cancelled if and only if the
\* requester is its tenant, its status is pending or confirmed and its start
\* is strictly later than now; otherwise an error is answered and no row
\* changes.  A step of cancel_booking that changes anything is such a
\* cancellation and leaves the other bookings as they were.
C8_CancelIffTenantActiveNotStarted ==
    /\ [](\A u \in Users, i \in DOMAIN bookings :
            LET r == cancel_booking_result(u, i)
            IN  /\ MayCancel(u, i)
                     => /\ r.response.level = "success"
                        /\ r.bookings[i].status = "cancelled"
                /\ ~MayCancel(u, i)
                     => /\ r.response.level = "error"
                        /\ r.bookings = bookings
                        /\ r.notifications = notifications)
    /\ [][\A u \in Users, i \in DOMAIN bookings :
            cancel_booking(u, i)
            => /\ MayCancel(u, i)
               /\ bookings'[i].status = "cancelled"
               /\ \A j \in DOMAIN bookings : j # i => bookings'[j] = bookings[j]]_vars

\* C8 witness: one booking has been cancelled by its tenant before the clock
\* moved, and another, already started, can no longer be cancelled.
C8_Witness ==
    \E i, j \in DOMAIN bookings :
        /\ bookings[i].status = "cancelled"
        /\ \E n \in DOMAIN notifications :
              /\ notifications[n].notification_type = "booking_cancelled"
              /\ notifications[n].related_object_id = i
        /\ Active(bookings[j])
        /\ bookings[j].start_datetime <= now
        /\ cancel_booking_result(bookings[j].tenant, j).response.level = "error"

\* the landlord re-issues the status the booking already has
Reissue(u, i, s) ==
    /\ u = properties[bookings[i].property].landlord
    /\ s \in {"confirmed", "cancelled", "completed"}
    /\ s = bookings[i].status

C10_CreationRespectsCapacity ==
    [][\A u \in Users, p \in Props, d \in Dates, sp \in Spans, g \in Guests :
          ((\/ ajax_create_booking(u, p, d, sp[1], sp[2], g)
            \/ \E bt \in BookingTypes : create_booking(u, p, d, d, sp[1], sp[2], bt, g))
           /\ Len(bookings') = Len(bookings) + 1)
          => g <= properties[p].capacity]_vars

\* C11: every persisted booking ends strictly later than it starts.
C11_EndAfterStart ==
    \A i \in DOMAIN bookings : bookings[i].end_datetime > bookings[i].start_datetime

\* the number of calendar dates from start_date to end_date inclusive
day_count(start_date, end_date) == end_date - start_date + 1

\* the started periods of n dates in day_count dates, at least 1
period_count(days, n) == IF days <= n THEN 1 ELSE (days + n - 1) \div n

\* the form accepts request rq of tenant t1 for property 1
Accepted(rq) == clean(1, 0, rq[1], rq[2], rq[3], rq[4], rq[5], 1) = "ok"

\* the form's calculated price for request rq on property 1
Price(rq) == calculated_price(1, rq[1], rq[2], rq[3], rq[4], rq[5])

\* C12: for an hourly request the price is the per-hour rate times the
\* duration in hours, fractional hours included: sixty times the price (the
\* form's calculated price, and the total_price of the booking persisted) is
\* the per-hour rate times the minutes from start to end.
C12_HourlyPriceIsRateTimesHours ==
    \A rq \in PricingRequests :
        (rq[5] = "hourly" /\ Accepted(rq))
        => LET r == create_booking_result("t1", 1, rq[1], rq[2], rq[3], rq[4], rq[5], 1)
               minutes == (rq[2] * 1440 + rq[4]) - (rq[1] * 1440 + rq[3])
           IN  /\ Price(rq) * 60 = properties[1].price_per_hour * minutes
               /\ r.response.level = "success"
               /\ r.bookings[Len(r.bookings)].total_price * 60
                    = properties[1].price_per_hour * minutes

\* C12 witness: a pending booking of 90 minutes is stored with one and a half
\* times the per-hour rate, next to one of 2 hours stored with twice the rate.
C12_Witness ==
    \E i, j \in DOMAIN bookings :
        /\ bookings[i].status = "pending" /\ bookings[j].status = "pending"
        /\ bookings[i].end_datetime - bookings[i].start_datetime = 90
        /\ 2 * bookings[i].total_price = 3 * properties[bookings[i].property].price_per_hour
        /\ bookings[j].end_datetime - bookings[j].start_datetime = 120
        /\ bookings[j].total_price = 2 * properties[bookings[j].property].price_per_hour

\* C13: for an accepted daily request the calculated price is the per-day
\* rate times day_count when the property has a per-day rate, and the
\* per-hour rate times 8 times day_count otherwise.
C13_DailyPrice ==
    \A rq \in PricingRequests :
        (rq[5] = "daily" /\ Accepted(rq))
        => Price(rq) =
             IF properties[1].price_per_day # None
             THEN properties[1].price_per_day * day_count(rq[1], rq[2])
             ELSE properties[1].price_per_hour * 8 * day_count(rq[1], rq[2])

\* C14: for an accepted weekly request the calculated price is the per-week
\* rate times week_count if a per-week rate is set, otherwise the per-day
\* rate times 5 times week_count if a per-day rate is set, otherwise the
\* per-hour rate times 8 times 5 times week_count, week_count being the
\* started 7-day periods of day_count.
C14_WeeklyPrice ==
    \A rq \in PricingRequests :
        (rq[5] = "weekly" /\ Accepted(rq))
        => LET week_count == period_count(day_count(rq[1], rq[2]), 7)
           IN  Price(rq) =
                 IF properties[1].price_per_week # None
                 THEN properties[1].price_per_week * week_count
                 ELSE IF properties[1].price_per_day # None
                 THEN properties[1].price_per_day * 5 * week_count
                 ELSE properties[1].price_per_hour * 8 * 5 * week_count

\* C15: for an accepted monthly request the calculated price is the first
\* that is set of: per-month rate times month_count, per-week rate times 4
\* times month_count, per-day rate times 20 times month_count, and otherwise
\* the per-hour rate times 8 times 20 times month_count, month_count being
\* the started 30-day periods of day_count.
C15_MonthlyPrice ==
    \A rq \in PricingRequests :
        (rq[5] = "monthly" /\ Accepted(rq))
        => LET month_count == period_count(day_count(rq[1], rq[2]), 30)
           IN  Price(rq) =
                 IF properties[1].price_per_month # None
                 THEN properties[1].price_per_month * month_count
                 ELSE IF properties[1].price_per_week # None
                 THEN properties[1].price_per_week * 4 * month_count
                 ELSE IF properties[1].price_per_day # None
                 THEN properties[1].price_per_day * 20 * month_count
                 ELSE properties[1].price_per_hour * 8 * 20 * month_count

\* C16: a step of form-based creation that persists a booking stores, as its
\* total_price, the form's calculated price for the requested type and span.
C16_StoredPriceIsCalculatedPrice ==
    [][\A rq \in PricingRequests :
          (create_booking("t1", 1, rq[1], rq[2], rq[3], rq[4], rq[5], 1)
           /\ Len(bookings') = Len(bookings) + 1)
          => bookings'[Len(bookings')].total_price = Price(rq)]_vars

\* C17: a step that changes the status of a booking leaves its total_price
\* as it was.
C17_TransitionsKeepPrice ==
    [][\A i \in DOMAIN bookings :
          bookings'[i].status # bookings[i].status
          => bookings'[i].total_price = bookings[i].total_price]_vars

\* C18: every booking a step persists is pending, no step takes a booking
\* that has left pending back to pending, and the landlord's request for
\* status 'pending' is answered with an error and changes nothing.
C18_PendingIsInitialOnly ==
    /\ [](\A u \in Users, i \in DOMAIN bookings :
            LET r == update_booking_status_result(u, i, "pending")
            IN  /\ r.response.level = "error"
                /\ r.bookings = bookings
                /\ r.notifications = notifications)
    /\ [][/\ \A i \in DOMAIN bookings' :
               i \notin DOMAIN bookings => bookings'[i].status = "pending"
          /\ \A i \in DOMAIN bookings :
               bookings[i].status # "pending" => bookings'[i].status # "pending"]_vars

\* C18 witness: one booking has been completed and another cancelled, the
\* landlord asks for 'pending' on the completed one and is refused.
C18_Witness ==
    \E i, j \in DOMAIN bookings :
        /\ bookings[i].status = "completed"
        /\ bookings[j].status = "cancelled"
        /\ update_booking_status_result(properties[bookings[i].property].landlord,
                                        i, "pending").response.code = "invalid_status"

\* C19: a creation step persists a booking only for a property whose status
\* is active.
C19_CreationOnlyOnActiveProperty ==
    [][\A i \in DOMAIN bookings' :
          i \notin DOMAIN bookings
          => properties[bookings'[i].property].status = "active"]_vars

\* C20: a creation request answered with an error leaves the stored bookings
\* and notifications as they were, whether it was rejected or failed after
\* the insert of the booking.
C20_ErrorWritesNothing ==
    [][\A u \in Bookers, p \in Props, d \in Dates, sp \in Spans, g \in Guests :
          (\/ /\ create_booking(u, p, d, d, sp[1], sp[2], "hourly", g)
              /\ create_booking_result(u, p, d, d, sp[1], sp[2], "hourly", g)
                    .response.level = "error"
           \/ /\ create_booking_raises(u, p, d, d, sp[1], sp[2], "hourly", g)
              /\ create_booking_raises_result(u, p, d, d, sp[1], sp[2], "hourly", g)
                    .response.level = "error"
           \/ /\ ajax_create_booking(u, p, d, sp[1], sp[2], g)
              /\ ajax_create_booking_result(u, p, d, sp[1], sp[2], g)
                    .response.level = "error"
           \/ /\ ajax_create_booking_raises(u, p, d, sp[1], sp[2], g)
              /\ ajax_create_booking_raises_result(u, p, d, sp[1], sp[2], g)
                    .response.level = "error")
          => bookings' = bookings /\ notifications' = notifications]_vars

\* the bookings a step persists
Created == DOMAIN bookings' \ DOMAIN bookings

\* the bookings whose status a step changes to status
ChangedTo(status) ==
    {i \in DOMAIN bookings : bookings[i].status # status /\ bookings'[i].status = status}

\* the step appends exactly one notification, of type notification_type, for
\* booking i
Notified(i, notification_type) ==
    /\ Len(notifications') = Len(notifications) + 1
    /\ notifications'[Len(notifications')].notification_type = notification_type
    /\ notifications'[Len(notifications')].related_object_id = i

\* a cancellation, status update or creation request that is answered with
\* an error creates no notification
RejectionsNotifyNobody ==
    /\ \A u \in Users, i \in DOMAIN bookings :
          LET r == cancel_booking_result(u, i)
          IN  r.response.level = "error" => r.notifications = notifications
    /\ \A u \in Users, i \in DOMAIN bookings, status \in STATUS_CHOICES :
          LET r == update_booking_status_result(u, i, status)
          IN  r.response.level = "error" => r.notifications = notifications
    /\ \A u \in Bookers, p \in Props, d \in Dates, sp \in Spans, g \in Guests :
          LET form == create_booking_result(u, p, d, d, sp[1], sp[2], "hourly", g)
              ajax == ajax_create_booking_result(u, p, d, sp[1], sp[2], g)
          IN  /\ form.response.level = "error" => form.notifications = notifications
              /\ ajax.response.level = "error" => ajax.notifications = notifications

\* C21: a step that persists a booking appends exactly one booking_created
\* notification for it, a step that changes a status to confirmed
\* (cancelled) appends exactly one booking_confirmed (booking_cancelled)
\* notification for that booking, and no other step adds a notification;
\* the notifications already stored stay; a request answered with an error
\* creates none.
C21_OneNotificationPerEvent ==
    /\ []RejectionsNotifyNobody
    /\ [][/\ \A k \in DOMAIN notifications : notifications'[k] = notifications[k]
          /\ \A i \in Created : Notified(i, "booking_created")
          /\ \A i \in ChangedTo("confirmed") : Notified(i, "booking_confirmed")
          /\ \A i \in ChangedTo("cancelled") : Notified(i, "booking_cancelled")
          /\ (Created \cup ChangedTo("confirmed") \cup ChangedTo("cancelled") = {})
               => notifications' = notifications]_vars

\* C21 witness: one booking was created, confirmed by the landlord and then
\* cancelled, and the notifications are exactly those three, in that order.
C21_Witness ==
    /\ Len(bookings) = 1
    /\ bookings[1].status = "cancelled"
    /\ Len(notifications) = 3
    /\ notifications[1].notification_type = "booking_created"
    /\ notifications[2].notification_type = "booking_confirmed"
    /\ notifications[3].notification_type = "booking_cancelled"
    /\ \A k \in 1..3 : notifications[k].related_object_id = 1

\* C22: booking_created is addressed to the property's landlord, the
\* notification of a landlord's confirm or cancel to the booking's tenant,
\* and the notification of a tenant's cancellation to the property's landlord.
C22_NotificationGoesToCounterparty ==
    [][/\ \A i \in Created :
             notifications'[Len(notifications')].user
                 = properties[bookings'[i].property].landlord
       /\ \A u \in Users, i \in DOMAIN bookings, status \in {"confirmed", "cancelled"} :
             (update_booking_status(u, i, status)
              /\ Len(notifications') = Len(notifications) + 1)
             => notifications'[Len(notifications')].user = bookings[i].tenant
       /\ \A u \in Users, i \in DOMAIN bookings :
             (cancel_booking(u, i) /\ Len(notifications') = Len(notifications) + 1)
             => notifications'[Len(notifications')].user
                    = properties[bookings[i].property].landlord]_vars

\* C24: an edit by admin_edit_booking whose new span overlaps another pending
\* or confirmed booking of the same property is answered with an error and
\* changes nothing; an edit whose new span overlaps no other such booking
\* (only, at most, the booking's own previous span) is accepted.
C24_EditChecksOtherBookings ==
    \A i \in DOMAIN bookings, d \in Dates, sp \in Spans :
        LET r == admin_edit_booking_result("a1", i, d, d, sp[1], sp[2], "hourly",
                                           bookings[i].guests)
            others == {j \in DOMAIN bookings :
                         /\ j # i
                         /\ bookings[j].property = bookings[i].property
                         /\ Active(bookings[j])
                         /\ Overlap(combine(d, sp[1]), combine(d, sp[2]),
                                    bookings[j].start_datetime, bookings[j].end_datetime)}
        IN  /\ others # {} => (r.response.level = "error" /\ r.bookings = bookings)
            /\ (others = {} /\ clean(0, i, d, d, sp[1], sp[2], "hourly",
                                      bookings[i].guests) = "ok")
                 => r.response.level = "success"

\* C28: a step sets the status of a booking to completed only when its end
\* instant has passed (now >= end).
C28_CompletedOnlyAfterEnd ==
    [][\A i \in DOMAIN bookings :
          (bookings'[i].status = "completed" /\ bookings[i].status # "completed")
          => now >= bookings[i].end_datetime]_vars

\* the minimum duration of a booking type, in minutes
MinimumDuration(booking_type) ==
    IF booking_type = "hourly" THEN 60
    ELSE IF booking_type = "daily" THEN 1440
    ELSE IF booking_type = "weekly" THEN 7 * 1440
    ELSE 28 * 1440

\* the minutes from the start of request rq to its end, the end of a daily,
\* weekly or monthly request being 23:59 of its end date
Minutes(rq) ==
    (rq[2] * 1440 + (IF rq[5] = "hourly" THEN rq[4] ELSE 23 * 60 + 59))
    - (rq[1] * 1440 + rq[3])

\* C25: form-based creation answers a request shorter than the minimum of
\* its booking type (1 hour, 1 day, 7 days, 28 days) with a validation error
\* and creates no booking, and it does not reject a request that meets the
\* minimum for its duration.
C25_MinimumDurationPerType ==
    \A rq \in PricingRequests :
        LET r == create_booking_result("t1", 1, rq[1], rq[2], rq[3], rq[4], rq[5], 1)
        IN  /\ Minutes(rq) < MinimumDuration(rq[5])
                 => (r.response.level = "error" /\ r.bookings = bookings)
            /\ Minutes(rq) >= MinimumDuration(rq[5])
                 => r.response.code # "min_duration"

\* C25 witness: a booking of exactly one hour and a booking of exactly one
\* day are stored, and a request of 30 minutes is refused for its duration.
C25_Witness ==
    /\ \E i, j \in DOMAIN bookings :
          /\ bookings[i].end_datetime - bookings[i].start_datetime = 60
          /\ bookings[j].end_datetime - bookings[j].start_datetime = 1440
    /\ create_booking_result("t1", 1, 0, 0, 9 * 60, 9 * 60 + 30, "hourly", 1)
            .response.code = "min_duration"

\* C26: a step of form-based creation that persists an hourly booking
\* persists one that starts and ends on the same date, starts at or after
\* 09:00 and ends at or before 22:00.
C26_HourlyWithinBusinessHours ==
    [][\A rq \in PricingRequests :
          (rq[5] = "hourly"
           /\ create_booking("t1", 1, rq[1], rq[2], rq[3], rq[4], rq[5], 1)
           /\ Len(bookings') = Len(bookings) + 1)
          => (rq[1] = rq[2] /\ rq[3] >= 9 * 60 /\ rq[4] <= 22 * 60)]_vars

\* C27: with the per-day (per-week, per-month) rate set to 0 the calculated
\* price of an accepted daily (weekly, monthly) request is 0.
C27_ZeroRateIsUsed ==
    \A rq \in PricingRequests :
        Accepted(rq)
        => /\ (rq[5] = "daily" /\ properties[1].price_per_day = 0) => Price(rq) = 0
           /\ (rq[5] = "weekly" /\ properties[1].price_per_week = 0) => Price(rq) = 0
           /\ (rq[5] = "monthly" /\ properties[1].price_per_month = 0) => Price(rq) = 0

\* C29: every accepted daily request spans at least two calendar dates (a
\* single-date daily request is rejected), and every accepted weekly request
\* spans at least 8 dates and is priced for at least 2 weeks.
C29_DailyTwoDatesWeeklyTwoWeeks ==
    \A rq \in PricingRequests :
        /\ (rq[5] = "daily" /\ rq[1] = rq[2]) => ~Accepted(rq)
        /\ (rq[5] = "daily" /\ Accepted(rq)) => day_count(rq[1], rq[2]) >= 2
        /\ (rq[5] = "weekly" /\ Accepted(rq))
             => /\ day_count(rq[1], rq[2]) >= 8
                /\ \E n \in 2..53 :
                      Price(rq) \in {properties[1].price_per_week * n,
                                     properties[1].price_per_day * 5 * n,
                                     properties[1].price_per_hour * 8 * 5 * n}

\* C29 witness: a daily booking over two dates (09:00 to 23:59 of the next
\* date) is stored and the daily request for its first date alone is refused.
C29_Witness ==
    /\ \E i \in DOMAIN bookings :
          /\ bookings[i].start_datetime = 9 * 60
          /\ bookings[i].end_datetime = 1440 + 23 * 60 + 59
    /\ create_booking_result("t1", 1, 0, 0, 9 * 60, 18 * 60, "daily", 1)
            .response.code = "min_duration"

\* C30: a step that persists or rewrites a booking leaves its total_price
\* equal to the property's current per-hour rate times the booking's duration
\* in hours, rounded to the hundredth.
C30_StoredPriceIsHourlyRateTimesHours ==
    [][\A i \in DOMAIN bookings' :
          (i \notin DOMAIN bookings \/ bookings'[i] # bookings[i])
          => LET exact == properties'[bookings'[i].property].price_per_hour
                              * (bookings'[i].end_datetime - bookings'[i].start_datetime)
                 diff == 60 * bookings'[i].total_price - exact
             IN  -30 <= diff /\ diff <= 30]_vars

\* C30 witness: a daily booking over two dates is stored with 38 hours and 59
\* minutes at the current per-hour rate, after the rate was edited and the
\* booking confirmed.
C30_Witness ==
    \E i \in DOMAIN bookings :
        /\ bookings[i].status = "confirmed"
        /\ bookings[i].end_datetime - bookings[i].start_datetime = 38 * 60 + 59
        /\ properties[bookings[i].property].price_per_hour = 1200
        /\ bookings[i].total_price = 46780

\* C23: no two reviews are of the same property by the same user, whether the
\* requests are served in turn or both pass the existence check before either
\* inserts, and whichever completed booking each one was posted through.
C23_OneReviewPerPropertyAndUser ==
    \A i, j \in DOMAIN reviews :
        (reviews[i].property = reviews[j].property /\ reviews[i].user = reviews[j].user)
        => i = j

\* C23 witness: a tenant has two completed bookings of one property; two
\* requests, one through each booking, passed the existence check; the
\* review of one is stored and the other is about to insert.
C23_Witness ==
    \E r \in Requests, i \in DOMAIN reviews :
        /\ inflight[r] # NoRequest
        /\ inflight[r].view = "add_review"
        /\ inflight[r].review.property = reviews[i].property
        /\ inflight[r].review.user = reviews[i].user
        /\ \E b \in DOMAIN bookings :
              /\ b # inflight[r].booking
              /\ bookings[b].status = "completed"
              /\ bookings[b].property = reviews[i].property
              /\ bookings[b].tenant = reviews[i].user

====
